---- MODULE Spec2Model ----
(***************************************************************************)
(* Order lifecycle, payment settlement, accounts, access control, audit   *)
(* log and delivery tracking of the storefront backend.                    *)
(*                                                                         *)
(* The state is the collections of the MongoDB store (orders, users,       *)
(* products, categories, audit log), the bearer tokens signed so far, the  *)
(* process environment, the wall clock, the locals of the handlers that    *)
(* are suspended at an await, and the last request handled                 *)
(* together with the response it got.  Every route is one action; a        *)
(* document is a function from schema paths to values, a request body and  *)
(* the request headers are functions from keys to values (an absent key    *)
(* is undefined).                                                          *)
(***************************************************************************)
EXTENDS Integers, Sequences, FiniteSets, TLC

\* ------------------------------------------------------------------ bounds
\* The clock runs from 0 to MaxTime.
MaxTime == 1
\* Length of a hex digest in the model (crypto's sha256 hex digest has 64).
HexLen == 2
\* Number of entries the audit log holds before its writers stop.
MaxAudit == 1

VARIABLES orders, env, now, req, res, users, issued, products, categories,
          audit, inflight

vars ==
  <<orders, env, now, req, res, users, issued, products, categories, audit,
    inflight>>

\* ----------------------------------------------------------- small helpers
Has(f, k) == k \in DOMAIN f

Empty == [k \in {} |-> 0]

\* Restriction of a function to the keys in S.
Restrict(f, S) == [k \in DOMAIN f \cap S |-> f[k]]

\* JavaScript truthiness of a string-valued key (undefined and "" are falsy).
TruthyStr(f, k) == Has(f, k) /\ f[k] # ""

\* The same for a string kept as its sequence of characters.
TruthyChars(f, k) == Has(f, k) /\ f[k] # <<>>

\* JavaScript truthiness of a number-valued key (undefined and 0 are falsy).
TruthyNum(f, k) == Has(f, k) /\ f[k] # 0

\* JavaScript truthiness of an array- or object-valued key.
TruthyObj(f, k) == Has(f, k)

\* ---------------------------------------------------------- the Order model
OrderStatusEnum ==
  {"pending", "confirmed", "preparing", "ready_for_delivery",
   "in_transit", "delivered", "cancelled"}

PaymentStatusEnum == {"pending", "paid", "failed"}

PaymentMethodEnum == {"cash", "card", "payme", "click"}

\* Every path OrderSchema declares (timestamps: true adds the last two).
OrderSchemaPaths ==
  {"userId", "items", "totals", "status", "address", "delivery",
   "paymentStatus", "paymentMethod", "notes", "createdAt", "updatedAt"}

\* The paths declared required: true.
OrderRequiredPaths == {"userId", "items", "totals", "address", "delivery"}

\* CartItemSchema: qty has min: 1; the other required fields are carried
\* by productId.
CartItemValid(item) == Has(item, "productId") /\ Has(item, "qty") /\ item.qty >= 1

\* Mongoose document validation, as run by Order.create and by save().
\* An empty items array passes `required` (arrays only have to be arrays).
OrderValid(doc) ==
  /\ OrderRequiredPaths \subseteq DOMAIN doc
  /\ \A i \in 1..Len(doc.items) : CartItemValid(doc.items[i])
  /\ doc.status \in OrderStatusEnum
  /\ doc.paymentStatus \in PaymentStatusEnum
  /\ Has(doc, "paymentMethod") => doc.paymentMethod \in PaymentMethodEnum

\* Schema defaults applied to a new document.
OrderDefaults == [status |-> "pending", paymentStatus |-> "pending"]

\* Strings that cast to an ObjectId, and one that does not.
ObjectIds == {"o1", "o2", "o3"}
BadId == "bad"

IsObjectId(id) == id \in ObjectIds

\* Strict mode (the schema default): an update keeps only the paths the
\* schema declares; the others are dropped without an error.
StrictUpdate(upd) == Restrict(upd, OrderSchemaPaths)

\* One document after findByIdAndUpdate(id, upd): the surviving paths are
\* $set as given (update validators are off by default) and the timestamps
\* plugin sets updatedAt.
UpdateDoc(doc, upd, t) ==
  LET s == StrictUpdate(upd)
  IN  [k \in DOMAIN doc \cup DOMAIN s \cup {"updatedAt"} |->
         IF k = "updatedAt" THEN t
         ELSE IF k \in DOMAIN s THEN s[k] ELSE doc[k]]

\* The collection after Order.findByIdAndUpdate(id, upd) for an id that
\* casts to an ObjectId: no document matches -> nothing is written.
FindByIdAndUpdate(store, id, upd, t) ==
  IF id \in DOMAIN store
  THEN [store EXCEPT ![id] = UpdateDoc(store[id], upd, t)]
  ELSE store

\* --------------------------------------------------------------- responses
Json(status, body) == [status |-> status, body |-> body]

\* A handler without try/catch whose promise rejects: Express 4 leaves the
\* request unanswered (status 0 here), Express 5 answers 500 through the
\* default error handler.
Unhandled ==
  {Json(0, [none |-> TRUE]), Json(500, [error |-> "Internal Server Error"])}

\* ---------------------------------------------------------------- accounts
\* UserSchema: the role enum, the required paths and every declared path.
\* (The timestamps of users, products and categories are left out.)
UserRoleEnum == {"admin", "cashier", "user"}

UserRequiredPaths == {"name", "password", "phone"}

UserSchemaPaths ==
  {"name", "password", "phone", "role", "addresses", "wishlist",
   "recentlyViewed"}

UserIds == {"u1", "u2", "u3", "u4"}

Phone1 == "+998900000001"
Phone2 == "+998900000002"
Phone3 == "+998900000003"
Phone4 == "+998900000004"

\* /^\+?998[0-9]{9}$/.test(phone) on the phone strings of the model.
PhoneRegex(phone) == phone \in {Phone1, Phone2, Phone3, Phone4}

\* bcrypt.hash(password, 10)
Bcrypt(password) == <<"bcrypt", password>>

\* new User(fields) / User.create(fields): strict mode keeps the declared
\* paths, and role defaults to "user".
NewUser(fields) ==
  LET s == Restrict(fields, UserSchemaPaths)
  IN  IF Has(s, "role") THEN s ELSE s @@ [role |-> "user"]

\* Document validation run by save() and create().
UserValid(doc) ==
  /\ UserRequiredPaths \subseteq DOMAIN doc
  /\ doc.role \in UserRoleEnum

\* User.findOne({ phone }) finds a document.
PhoneTaken(store, body) ==
  Has(body, "phone") /\ \E id \in DOMAIN store : store[id].phone = body.phone

\* The unique index on phone accepts the collection.
PhoneUnique(store) ==
  \A a, b \in DOMAIN store : store[a].phone = store[b].phone => a = b

\* An _id never given to an account before (ids are not reused while a
\* token signed for them exists).
FreshUserIds == UserIds \ (DOMAIN users \cup {t.id : t \in issued})

\* signToken({ id: user.id, role: user.role })
SignToken(id, doc) == [id |-> id, role |-> doc.role]

\* A bearer token that was not signed with JWT_SECRET.
Forged == [forged |-> TRUE]

\* jwt.verify(token, JWT_SECRET) succeeds exactly on the tokens signToken
\* produced; they carry no expiry.
JwtVerify(token) == token \in issued

\* The Authorization headers a request may carry: none, a token that does
\* not verify, or any token signed so far.
AuthHeaders ==
  {Empty} \cup { ("authorization" :> t) : t \in issued \cup {Forged} }

\* What a middleware yields when it calls next().
NextHandler == Json(-1, [next |-> TRUE])

\* requireAuth: the response it sends, or NextHandler.
RequireAuth(headers) ==
  IF ~Has(headers, "authorization")
  THEN Json(401, [message |-> "Missing token"])
  ELSE IF ~JwtVerify(headers.authorization)
  THEN Json(401, [message |-> "Invalid token"])
  ELSE NextHandler

\* req.user as requireAuth leaves it: the decoded token, or undefined.
Decoded(headers) ==
  IF RequireAuth(headers) = NextHandler THEN headers.authorization ELSE Empty

RequireRoleAnyRole(user, roles) ==
  IF ~Has(user, "role") THEN Json(403, [message |-> "Forbidden"])
  ELSE NextHandler

\* requireRole(...roles): the response it sends, or NextHandler.
RequireRole(user, roles) ==
  IF ~Has(user, "role") THEN Json(403, [message |-> "Forbidden"])
  ELSE IF user.role \notin roles THEN Json(403, [message |-> "Forbidden"])
  ELSE NextHandler

\* requireAuth, requireRole(...roles) mounted in front of a handler.
Guard(headers, roles) ==
  IF RequireAuth(headers) # NextHandler THEN RequireAuth(headers)
  ELSE RequireRole(Decoded(headers), roles)

\* --------------------------------------------------------------- payments
\* crypto.randomBytes(8).toString("hex"): any value may come out.
IntentIds == {"i1", "i2"}

PaymeKey == "payme_secret"
ClickKey == "click_secret"

HexDigits ==
  <<"0", "1", "2", "3", "4", "5", "6", "7",
    "8", "9", "a", "b", "c", "d", "e", "f">>

StrCode(s) ==
  CASE s = "" -> 0
    [] s = "i1" -> 1
    [] s = "i2" -> 2
    [] s = "o1" -> 3
    [] s = "o2" -> 4
    [] s = "o3" -> 5
    [] s = "bad" -> 6
    [] s = PaymeKey -> 7
    [] s = ClickKey -> 11
    [] OTHER -> 13

\* JSON.stringify(req.body || {}): the keys present, in order, with their
\* values; an absent key is left out.
Stringify(body) ==
  LET part(k) == IF Has(body, k) THEN <<k, body[k]>> ELSE <<>>
  IN  part("intentId") \o part("orderId")

RawCode(raw) ==
  LET val(i) == IF i <= Len(raw) THEN StrCode(raw[i]) ELSE 0
  IN  Len(raw) + 3 * val(2) + 5 * val(4)

\* crypto.createHmac("sha256", secret).update(raw).digest("hex"): a string
\* of HexLen hex digits determined by the secret and the raw body.
Hmac(secret, raw) ==
  [i \in 1..HexLen |->
     HexDigits[((StrCode(secret) + RawCode(raw) + 7 * i) % 16) + 1]]

\* A header character outside ASCII (Node decodes header bytes as Latin-1).
LatinChar == "U+00E9"

\* The UTF-8 bytes of one character: hex digits are ASCII, a Latin-1
\* letter takes two bytes.
Utf8(c) == IF c = LatinChar THEN <<"c3", "a9">> ELSE <<c>>

RECURSIVE BufferFrom(_)
\* Buffer.from(str): the UTF-8 encoding of the string.
BufferFrom(s) == IF s = <<>> THEN <<>> ELSE Utf8(Head(s)) \o BufferFrom(Tail(s))

\* crypto.timingSafeEqual(a, b): throws a RangeError when the byte lengths
\* differ, otherwise compares the bytes.
TimingSafeEqual(a, b) ==
  IF Len(a) # Len(b) THEN "RangeError"
  ELSE IF a = b THEN "true" ELSE "false"

VerifySignatureLengthOnly(raw, headers, secretName) ==
  IF ~TruthyChars(headers, "x-signature") \/ ~TruthyStr(env, secretName)
  THEN "false"
  ELSE IF Len(BufferFrom(Hmac(env[secretName], raw)))
            # Len(BufferFrom(headers["x-signature"]))
       THEN "RangeError" ELSE "true"

\* verifySignature(raw, signature, secret) with signature read from the
\* x-signature header and secret from the environment.
VerifySignature(raw, headers, secretName) ==
  IF ~TruthyChars(headers, "x-signature") \/ ~TruthyStr(env, secretName)
  THEN "false"
  ELSE TimingSafeEqual(BufferFrom(Hmac(env[secretName], raw)),
                       BufferFrom(headers["x-signature"]))

\* The update both webhooks send.
WebhookUpdate(t) ==
  ("status" :> "paid") @@ ("payment.status" :> "paid") @@ ("payment.paidAt" :> t)

CreateUpdateSchemaPaths(provider, intentId) ==
  ("paymentMethod" :> provider) @@ ("paymentStatus" :> "pending")

\* The update createPayme / createClick send.
CreateUpdate(provider, intentId) ==
  ("payment.method" :> provider) @@ ("payment.status" :> "pending")
    @@ ("payment.intentId" :> intentId)

CreateIntentInvalidOrderOnly(body) == ~TruthyStr(body, "orderId")

\* if (!orderId || !amount)
CreateIntentInvalid(body) ==
  ~TruthyStr(body, "orderId") \/ ~TruthyNum(body, "amount")

\* if (!intentId || !orderId)
WebhookPayloadInvalid(body) ==
  ~TruthyStr(body, "intentId") \/ ~TruthyStr(body, "orderId")

\* ------------------------------------------------------------------ inputs
Zeros(n) == [i \in 1..n |-> "0"]

\* HexLen characters, the first of them outside ASCII.
WideSignature == [i \in 1..HexLen |-> IF i = 1 THEN LatinChar ELSE "0"]

\* The x-signature values tried against a raw body: the digest under either
\* provider's secret, a wrong value of the same length, a shorter and a
\* longer one, the empty string, and one with as many characters but more
\* bytes; or no header at all.
SignatureHeaders(raw) ==
  {Empty} \cup
  { ("x-signature" :> s) :
      s \in {Hmac(PaymeKey, raw), Hmac(ClickKey, raw), Zeros(HexLen),
             Zeros(HexLen - 1), Zeros(HexLen + 1), <<>>, WideSignature} }

OrderIdInputs == {"o1", "o3", BadId}

WebhookBodies ==
  { Restrict([intentId |-> i, orderId |-> o], K) :
      i \in {"i1"}, o \in OrderIdInputs, K \in SUBSET {"intentId", "orderId"} }

CreateBodies ==
  { Restrict([orderId |-> o, amount |-> a], K) :
      o \in OrderIdInputs \cup {""}, a \in {0, 1000},
      K \in {{"orderId", "amount"}, {"amount"}, {"orderId"}} }

Environments ==
  { ("PAYME_SECRET" :> PaymeKey) @@ ("CLICK_SECRET" :> ClickKey), Empty }

Request(op, headers, params, body, user) ==
  [op |-> op, headers |-> headers, params |-> params, body |-> body,
   user |-> user]

\* The requests the event loop has in progress at once: a handler suspended
\* at an await keeps its locals while the other one runs.
Workers == {"w1", "w2"}

\* Worker w holds a handler of this route suspended at an await.
Suspended(w, op) == inflight[w] # Empty /\ inflight[w].req.op = op

\* ------------------------------------------------------------------- Init
Item(q) == [productId |-> "p1", qty |-> q]
Totals == [subtotal |-> 10, shipping |-> 0, tax |-> 0, total |-> 10]
Address == [fullName |-> "John", city |-> "Tashkent"]

\* A document of the collection that satisfies OrderSchema.
StoredOrder(user, st, ps) ==
  [userId |-> user, items |-> <<Item(1)>>, totals |-> Totals,
   status |-> st, address |-> Address, delivery |-> [address |-> Address],
   paymentStatus |-> ps, createdAt |-> 0, updatedAt |-> 0]

\* The (status, paymentStatus) pairs order o1 starts in: every status of
\* the schema, and every payment status.
InitialPairs ==
  {<<st, "pending">> : st \in OrderStatusEnum}
    \cup {<<"pending", ps>> : ps \in PaymentStatusEnum}

\* The collection is persistent: the server finds the orders written before
\* it started.  Order o1 is in any state the schema allows, o2 is another
\* user's order, and no order has the id o3.
InitialStores ==
  { [id \in {"o1", "o2"} |->
       IF id = "o1" THEN StoredOrder("u1", p[1], p[2])
       ELSE StoredOrder("u2", "pending", "pending")] : p \in InitialPairs }

StoredUser(name, phone, role) ==
  [name |-> name, phone |-> phone, role |-> role, password |-> Bcrypt("pw")]

\* The accounts present at start: a customer, an admin and a cashier, each
\* of whom has logged in (their tokens are signed).
InitialUsers ==
  ("u1" :> StoredUser("Ann", Phone1, "user"))
    @@ ("u2" :> StoredUser("Bob", Phone2, "admin"))
    @@ ("u3" :> StoredUser("Cy", Phone3, "cashier"))

\* One category and one product in it.
InitialCategories == ("c1" :> [slug |-> "toys", title |-> "Toys"])

InitialProducts ==
  ("p1" :> [slug |-> "bear", title |-> "Bear", categorySlug |-> "toys"])

Init ==
  /\ orders \in InitialStores
  /\ env \in Environments
  /\ now = 0
  /\ req = Request("none", Empty, Empty, Empty, Empty)
  /\ res = Json(0, [none |-> TRUE])
  /\ users = InitialUsers
  /\ issued = {SignToken(id, InitialUsers[id]) : id \in DOMAIN InitialUsers}
  /\ products = InitialProducts
  /\ categories = InitialCategories
  /\ audit = <<>>
  /\ inflight = [w \in Workers |-> Empty]

\* --------------------------------------------------------------- handlers
CreateIntent(op, provider) ==
  \E body \in CreateBodies, intentId \in IntentIds :
    /\ req' = Request(op, Empty, Empty, body, Empty)
    /\ IF CreateIntentInvalid(body)
       THEN /\ res' = Json(400, [message |-> "orderId and amount required"])
            /\ orders' = orders
       ELSE IF ~IsObjectId(body.orderId)
       THEN /\ res' \in Unhandled
            /\ orders' = orders
       ELSE /\ orders' = FindByIdAndUpdate(orders, body.orderId,
                                           CreateUpdate(provider, intentId), now)
            /\ res' = Json(200, [intentId |-> intentId,
                                 redirectUrl |-> <<body.orderId, intentId>>])
    /\ UNCHANGED <<env, now, users, issued, products, categories, audit, inflight>>

createPayme == CreateIntent("createPayme", "payme")

createClick == CreateIntent("createClick", "click")

Webhook(op, secretName) ==
  \E body \in WebhookBodies :
    \E headers \in SignatureHeaders(Stringify(body)) :
      LET verified == VerifySignature(Stringify(body), headers, secretName)
      IN  /\ req' = Request(op, headers, Empty, body, Empty)
          /\ IF verified = "RangeError"
             THEN /\ res' \in Unhandled
                  /\ orders' = orders
             ELSE IF verified = "false"
             THEN /\ res' = Json(401, [message |-> "invalid"])
                  /\ orders' = orders
             ELSE IF WebhookPayloadInvalid(body)
             THEN /\ res' = Json(400, [message |-> "invalid payload"])
                  /\ orders' = orders
             ELSE IF ~IsObjectId(body.orderId)
             THEN /\ res' \in Unhandled
                  /\ orders' = orders
             ELSE /\ orders' = FindByIdAndUpdate(orders, body.orderId,
                                                 WebhookUpdate(now), now)
                  /\ res' = Json(200, [ok |-> TRUE])
          /\ UNCHANGED <<env, now, users, issued, products, categories, audit, inflight>>

paymeWebhook == Webhook("paymeWebhook", "PAYME_SECRET")

clickWebhook == Webhook("clickWebhook", "CLICK_SECRET")

\* The caller requireAuth decoded from the bearer token; no caller when the
\* route has no requireAuth in front of the handler.
Callers ==
  {Empty, [id |-> "u1", role |-> "user"], [id |-> "u2", role |-> "admin"]}

OrderBodies ==
  { Restrict([items |-> it, totals |-> Totals, address |-> Address], K) :
      it \in {<<>>, <<Item(1)>>, <<Item(1), Item(0)>>},
      K \in {{"items", "totals", "address"}, {"totals", "address"},
             {"items", "address"}, {"items", "totals"}} }

\* if (!items || !totals || !address)
CreateOrderInvalid(body) ==
  ~TruthyObj(body, "items") \/ ~TruthyObj(body, "totals")
    \/ ~TruthyObj(body, "address")

\* The document Order.create builds from { userId, items, totals, address }:
\* the given paths, the schema defaults and the timestamps.
NewOrder(userId, body, t) ==
  [userId |-> userId, items |-> body.items, totals |-> body.totals,
   address |-> body.address, status |-> OrderDefaults.status,
   paymentStatus |-> OrderDefaults.paymentStatus,
   createdAt |-> t, updatedAt |-> t]

\* order.toJSON(): the document with its id.
ToJSON(id, doc) == [id |-> id] @@ doc

ServerError == Json(500, [message |-> "Server error"])

createOrder ==
  \E user \in Callers, body \in OrderBodies, id \in ObjectIds \ DOMAIN orders :
    /\ req' = Request("createOrder", Empty, Empty, body, user)
    /\ IF ~Has(user, "id")
       THEN /\ res' = ServerError
            /\ orders' = orders
       ELSE IF CreateOrderInvalid(body)
       THEN /\ res' = Json(400, [message |-> "items, totals, address required"])
            /\ orders' = orders
       ELSE IF ~OrderValid(NewOrder(user.id, body, now))
       THEN /\ res' = ServerError
            /\ orders' = orders
       ELSE /\ orders' = (id :> NewOrder(user.id, body, now)) @@ orders
            /\ res' = Json(201, ToJSON(id, NewOrder(user.id, body, now)))
    /\ UNCHANGED <<env, now, users, issued, products, categories, audit, inflight>>

okStatuses == {"pending", "processing", "in_transit", "delivered", "cancelled"}

\* The status values a PATCH body carries: the schema's enum, the value the
\* handler's own list adds, and values in neither.
StatusInputs == OrderStatusEnum \cup {"processing", "paid", "shipped"}

StatusBodies == {Empty} \cup {[status |-> s] : s \in StatusInputs}

\* okStatuses.includes(status)
StatusAccepted(body) == Has(body, "status") /\ body.status \in okStatuses

\* The allow-lists the route table gives requireRole.
StaffRoles == {"admin", "moderator"}

AdminOnly == {"admin"}

\* app.patch("/api/orders/:orderId/status", requireAuth,
\*           requireRole("admin", "moderator"), updateOrderStatus)
updateOrderStatus ==
  \E headers \in AuthHeaders, orderId \in OrderIdInputs, body \in StatusBodies :
    /\ req' = Request("updateOrderStatus", headers, [orderId |-> orderId],
                      body, Decoded(headers))
    /\ IF Guard(headers, StaffRoles) # NextHandler
       THEN /\ res' = Guard(headers, StaffRoles)
            /\ orders' = orders
       ELSE IF ~StatusAccepted(body)
       THEN /\ res' = Json(400, [message |-> "Invalid status"])
            /\ orders' = orders
       ELSE IF ~IsObjectId(orderId)
       THEN /\ res' = ServerError
            /\ orders' = orders
       ELSE IF orderId \notin DOMAIN orders
       THEN /\ res' = Json(404, [message |-> "Order not found"])
            /\ orders' = orders
       ELSE /\ orders' = FindByIdAndUpdate(orders, orderId,
                                           [status |-> body.status], now)
            /\ res' = Json(200, ToJSON(orderId, orders'[orderId]))
    /\ UNCHANGED <<env, now, users, issued, products, categories, audit, inflight>>

\* ------------------------------------------------------- account handlers
\* user.toJSON(): the document with its id and without the password.
UserJSON(id, doc) == [id |-> id] @@ Restrict(doc, DOMAIN doc \ {"password"})

SignupBodies ==
  { Restrict([name |-> "Dan", phone |-> ph, password |-> "pw", role |-> "admin"], K) :
      ph \in {Phone1, Phone4, "12345"},
      K \in {{"name", "phone", "password", "role"}, {"name", "phone", "password"}} }
    \cup {[name |-> "Dan", phone |-> Phone4, password |-> "pw", role |-> "moderator"],
          [phone |-> Phone4, password |-> "pw"]}

\* if (!name || !phone || !password)
SignupIncomplete(body) ==
  ~TruthyStr(body, "name") \/ ~TruthyStr(body, "phone")
    \/ ~TruthyStr(body, "password")

\* The fields signup hands to User.create: role is passed on as received.
SignupFields(body) ==
  Restrict(body, {"name", "phone", "role"})
    @@ [password |-> Bcrypt(body.password)]

\* app.post("/api/auth/signup", signup)
signup ==
  \E body \in SignupBodies :
    /\ req' = Request("signup", Empty, Empty, body, Empty)
    /\ IF SignupIncomplete(body)
       THEN /\ res' = Json(400, [message |-> "Name, phone and password are required"])
            /\ UNCHANGED <<users, issued>>
       ELSE IF ~PhoneRegex(body.phone)
       THEN /\ res' = Json(400, [message |-> "Invalid phone number format. Use +998XXXXXXXXX"])
            /\ UNCHANGED <<users, issued>>
       ELSE IF PhoneTaken(users, body)
       THEN /\ res' = Json(409, [message |-> "User already exists with this phone number"])
            /\ UNCHANGED <<users, issued>>
       ELSE IF ~UserValid(NewUser(SignupFields(body)))
       THEN /\ res' = ServerError
            /\ UNCHANGED <<users, issued>>
       ELSE \E id \in FreshUserIds :
              LET doc == NewUser(SignupFields(body))
              IN  /\ users' = (id :> doc) @@ users
                  /\ issued' = issued \cup {SignToken(id, doc)}
                  /\ res' = Json(201, [token |-> SignToken(id, doc),
                                       user |-> UserJSON(id, doc)])
    /\ UNCHANGED <<orders, env, now, products, categories, audit, inflight>>

\* signup up to `await User.findOne({ phone })` and the 409 that follows
\* it.  A handler that found no account is suspended (it hashes the
\* password) before it creates one.
signupFind ==
  \E w \in Workers, body \in SignupBodies :
    LET r == Request("signup", Empty, Empty, body, Empty)
        answered(response) ==
          /\ req' = r
          /\ res' = response
          /\ inflight' = inflight
    IN  /\ inflight[w] = Empty
        /\ IF SignupIncomplete(body)
           THEN answered(Json(400, [message |-> "Name, phone and password are required"]))
           ELSE IF ~PhoneRegex(body.phone)
           THEN answered(Json(400, [message |-> "Invalid phone number format. Use +998XXXXXXXXX"]))
           ELSE IF PhoneTaken(users, body)
           THEN answered(Json(409, [message |-> "User already exists with this phone number"]))
           ELSE /\ inflight' = [inflight EXCEPT ![w] = [req |-> r]]
                /\ UNCHANGED <<req, res>>
        /\ UNCHANGED <<orders, env, now, users, issued, products, categories, audit>>

\* signup from `await User.create(...)`: validation, then the insert, which
\* the unique index on phone rejects with a duplicate key error when an
\* account with the phone has been stored meanwhile; the handler's catch
\* answers every error with 500.
signupCreate ==
  \E w \in Workers :
    /\ Suspended(w, "signup")
    /\ LET r == inflight[w].req
           doc == NewUser(SignupFields(r.body))
       IN  /\ req' = r
           /\ IF ~UserValid(doc) \/ PhoneTaken(users, r.body)
              THEN /\ res' = ServerError
                   /\ UNCHANGED <<users, issued>>
              ELSE \E id \in FreshUserIds :
                     /\ users' = (id :> doc) @@ users
                     /\ issued' = issued \cup {SignToken(id, doc)}
                     /\ res' = Json(201, [token |-> SignToken(id, doc),
                                          user |-> UserJSON(id, doc)])
    /\ inflight' = [inflight EXCEPT ![w] = Empty]
    /\ UNCHANGED <<orders, env, now, products, categories, audit>>

LoginBodies ==
  { Restrict([phone |-> ph, password |-> pw], K) :
      ph \in {Phone1, Phone4, "12345"}, pw \in {"pw", "wrong"},
      K \in {{"phone", "password"}, {"phone"}} }

\* app.post("/api/auth/login", login)
login ==
  \E body \in LoginBodies :
    /\ req' = Request("login", Empty, Empty, body, Empty)
    /\ IF ~TruthyStr(body, "phone") \/ ~TruthyStr(body, "password")
       THEN /\ res' = Json(400, [message |-> "Phone and password are required"])
            /\ issued' = issued
       ELSE IF ~PhoneRegex(body.phone)
       THEN /\ res' = Json(400, [message |-> "Invalid phone number format. Use +998XXXXXXXXX"])
            /\ issued' = issued
       ELSE IF ~PhoneTaken(users, body)
       THEN /\ res' = Json(401, [message |-> "Invalid credentials"])
            /\ issued' = issued
       ELSE LET id == CHOOSE u \in DOMAIN users : users[u].phone = body.phone
            IN  IF users[id].password # Bcrypt(body.password)
                THEN /\ res' = Json(401, [message |-> "Invalid credentials"])
                     /\ issued' = issued
                ELSE /\ issued' = issued \cup {SignToken(id, users[id])}
                     /\ res' = Json(200, [token |-> SignToken(id, users[id]),
                                          user |-> UserJSON(id, users[id])])
    /\ UNCHANGED <<orders, env, now, users, products, categories, audit, inflight>>

CreateUserBodies ==
  { Restrict([name |-> "Dan", phone |-> ph, password |-> "pw", role |-> "admin"], K) :
      ph \in {Phone1, Phone4},
      K \in {{"name", "phone", "password", "role"}, {"name", "phone", "password"}} }
    \cup {[name |-> "Dan", phone |-> Phone4, password |-> "pw", role |-> "moderator"],
          [name |-> "Dan", phone |-> Phone4, role |-> "cashier"]}

\* role === r && currentUser.role !== 'admin'
RoleReserved(body, user, r) ==
  Has(body, "role") /\ body.role = r /\ user.role # "admin"

\* app.post("/api/admin/users", requireAuth, requireRole("admin", "moderator"),
\*          createUser)
createUser ==
  \E headers \in AuthHeaders, body \in CreateUserBodies :
    LET user == Decoded(headers)
        doc == NewUser(Restrict(body, {"name", "phone", "role"})
                         @@ [password |-> Bcrypt(body.password),
                             createdBy |-> user.id])
    IN  /\ req' = Request("createUser", headers, Empty, body, user)
        /\ IF Guard(headers, StaffRoles) # NextHandler
           THEN /\ res' = Guard(headers, StaffRoles)
                /\ users' = users
           ELSE IF RoleReserved(body, user, "admin")
           THEN /\ res' = Json(403, [message |-> "Only admin can create admin accounts"])
                /\ users' = users
           ELSE IF RoleReserved(body, user, "moderator")
           THEN /\ res' = Json(403, [message |-> "Only admin can create moderator accounts"])
                /\ users' = users
           ELSE IF PhoneTaken(users, body)
           THEN /\ res' = Json(400, [message |-> "Phone number already registered"])
                /\ users' = users
           ELSE IF ~Has(body, "password")
           THEN /\ res' = ServerError
                /\ users' = users
           ELSE IF ~UserValid(doc)
           THEN /\ res' = ServerError
                /\ users' = users
           ELSE \E id \in FreshUserIds :
                  /\ users' = (id :> doc) @@ users
                  /\ res' = Json(201, [message |-> "User created successfully",
                                       user |-> UserJSON(id, doc)])
        /\ UNCHANGED <<orders, env, now, issued, products, categories, audit, inflight>>

UserIdInputs == {"u1", "u2", "u3", "u4", BadId}

IsUserId(id) == id \in UserIds

UpdateUserBodies ==
  { Restrict([name |-> "Zed", phone |-> Phone2, role |-> r, isActive |-> FALSE], K) :
      r \in {"admin", "moderator"},
      K \in {{"role"}, {"name", "isActive"}, {"phone"}} }

\* if (name) user.name = name; if (phone) ...; if (role) ...;
\* if (typeof isActive === 'boolean') user.isActive = isActive;
\* isActive is no path of the schema, so save() does not store it.
AssignUser(doc, body) ==
  [k \in DOMAIN doc |->
     IF k \in {"name", "phone", "role"} /\ TruthyStr(body, k) THEN body[k]
     ELSE doc[k]]

\* app.put("/api/admin/users/:id", requireAuth,
\*         requireRole("admin", "moderator"), updateUser)
updateUser ==
  \E headers \in AuthHeaders, id \in {"u1", "u4", BadId}, body \in UpdateUserBodies :
    LET user == Decoded(headers)
    IN  /\ req' = Request("updateUser", headers, [id |-> id], body, user)
        /\ IF Guard(headers, StaffRoles) # NextHandler
           THEN /\ res' = Guard(headers, StaffRoles)
                /\ users' = users
           ELSE IF ~IsUserId(id)
           THEN /\ res' = ServerError
                /\ users' = users
           ELSE IF id \notin DOMAIN users
           THEN /\ res' = Json(404, [message |-> "User not found"])
                /\ users' = users
           ELSE IF RoleReserved(body, user, "admin")
           THEN /\ res' = Json(403, [message |-> "Only admin can modify admin accounts"])
                /\ users' = users
           ELSE IF \/ ~UserValid(AssignUser(users[id], body))
                   \/ ~PhoneUnique([users EXCEPT ![id] = AssignUser(users[id], body)])
           THEN /\ res' = ServerError
                /\ users' = users
           ELSE /\ users' = [users EXCEPT ![id] = AssignUser(users[id], body)]
                /\ res' = Json(200, [message |-> "User updated successfully",
                                     user |-> UserJSON(id, users'[id])])
        /\ UNCHANGED <<orders, env, now, issued, products, categories, audit, inflight>>

IsSelfNever(id, user) == FALSE

\* if (user.id === currentUser.id)
IsSelf(id, user) == id = user.id

\* User.findByIdAndDelete(id)
DeleteById(store, id) == [k \in DOMAIN store \ {id} |-> store[k]]

\* app.delete("/api/admin/users/:id", requireAuth, requireRole("admin"),
\*            deleteUser)
deleteUser ==
  \E headers \in AuthHeaders, id \in UserIdInputs :
    LET user == Decoded(headers)
    IN  /\ req' = Request("deleteUser", headers, [id |-> id], Empty, user)
        /\ IF Guard(headers, AdminOnly) # NextHandler
           THEN /\ res' = Guard(headers, AdminOnly)
                /\ users' = users
           ELSE IF ~IsUserId(id)
           THEN /\ res' = ServerError
                /\ users' = users
           ELSE IF id \notin DOMAIN users
           THEN /\ res' = Json(404, [message |-> "User not found"])
                /\ users' = users
           ELSE IF users[id].role = "admin" /\ user.role # "admin"
           THEN /\ res' = Json(403, [message |-> "Only admin can delete admin accounts"])
                /\ users' = users
           ELSE IF IsSelf(id, user)
           THEN /\ res' = Json(400, [message |-> "Cannot delete your own account"])
                /\ users' = users
           ELSE /\ users' = DeleteById(users, id)
                /\ res' = Json(200, [message |-> "User deleted successfully"])
        /\ UNCHANGED <<orders, env, now, issued, products, categories, audit, inflight>>

\* ------------------------------------------------------- catalog handlers
\* ProductSchema / CategorySchema: the required paths.  The other required
\* fields of a product (gender, ageRange, price, description, material,
\* care) are carried by title.
ProductRequiredPaths == {"slug", "title", "categorySlug"}

CategoryRequiredPaths == {"slug", "title"}

ProductIds == {"p1", "p2"}

CategoryIds == {"c1", "c2"}

\* Model.findOne({ slug }) finds a document.
SlugTaken(store, body, key) ==
  Has(body, key) /\ \E id \in DOMAIN store : store[id].slug = body[key]

\* The unique index on slug accepts the collection.
SlugUnique(store) ==
  \A a, b \in DOMAIN store : store[a].slug = store[b].slug => a = b

ProductBodies ==
  { Restrict([slug |-> sl, title |-> "Doll", categorySlug |-> c], K) :
      sl \in {"bear", "doll"}, c \in {"toys", "none"},
      K \in {{"slug", "title", "categorySlug"}, {"slug", "categorySlug"}} }

\* app.post("/api/admin/products", requireAuth,
\*          requireRole("admin", "moderator"), createProduct)
createProduct ==
  \E headers \in AuthHeaders, body \in ProductBodies :
    /\ req' = Request("createProduct", headers, Empty, body, Decoded(headers))
    /\ IF Guard(headers, StaffRoles) # NextHandler
       THEN /\ res' = Guard(headers, StaffRoles)
            /\ products' = products
       ELSE IF SlugTaken(products, body, "slug")
       THEN /\ res' = Json(400, [message |-> "Product with this slug already exists"])
            /\ products' = products
       ELSE IF ~SlugTaken(categories, body, "categorySlug")
       THEN /\ res' = Json(400, [message |-> "Category not found"])
            /\ products' = products
       ELSE IF ~(ProductRequiredPaths \subseteq DOMAIN body)
       THEN /\ res' = ServerError
            /\ products' = products
       ELSE \E id \in ProductIds \ DOMAIN products :
              /\ products' = (id :> body) @@ products
              /\ res' = Json(201, [message |-> "Product created successfully",
                                   product |-> ToJSON(id, body)])
    /\ UNCHANGED <<orders, env, now, users, issued, categories, audit, inflight>>

ProductUpdates ==
  {[title |-> "Big bear"], [categorySlug |-> "none"], [slug |-> "doll"]}

\* Object.assign(product, updateData)
Assign(doc, upd) ==
  [k \in DOMAIN doc |-> IF Has(upd, k) THEN upd[k] ELSE doc[k]]

\* app.put("/api/admin/products/:id", requireAuth,
\*         requireRole("admin", "moderator"), updateProduct)
updateProduct ==
  \E headers \in AuthHeaders, id \in {"p1", "p2", BadId}, body \in ProductUpdates :
    /\ req' = Request("updateProduct", headers, [id |-> id], body,
                      Decoded(headers))
    /\ IF Guard(headers, StaffRoles) # NextHandler
       THEN /\ res' = Guard(headers, StaffRoles)
            /\ products' = products
       ELSE IF id \notin ProductIds
       THEN /\ res' = ServerError
            /\ products' = products
       ELSE IF id \notin DOMAIN products
       THEN /\ res' = Json(404, [message |-> "Product not found"])
            /\ products' = products
       ELSE IF /\ TruthyStr(body, "categorySlug")
               /\ body.categorySlug # products[id].categorySlug
               /\ ~SlugTaken(categories, body, "categorySlug")
       THEN /\ res' = Json(400, [message |-> "Category not found"])
            /\ products' = products
       ELSE IF ~SlugUnique([products EXCEPT ![id] = Assign(products[id], body)])
       THEN /\ res' = ServerError
            /\ products' = products
       ELSE /\ products' = [products EXCEPT ![id] = Assign(products[id], body)]
            /\ res' = Json(200, [message |-> "Product updated successfully",
                                 product |-> ToJSON(id, products'[id])])
    /\ UNCHANGED <<orders, env, now, users, issued, categories, audit, inflight>>

\* app.delete("/api/admin/products/:id", requireAuth,
\*            requireRole("admin", "moderator"), deleteProduct)
deleteProduct ==
  \E headers \in AuthHeaders, id \in {"p1", "p2", BadId} :
    /\ req' = Request("deleteProduct", headers, [id |-> id], Empty,
                      Decoded(headers))
    /\ IF Guard(headers, StaffRoles) # NextHandler
       THEN /\ res' = Guard(headers, StaffRoles)
            /\ products' = products
       ELSE IF id \notin ProductIds
       THEN /\ res' = ServerError
            /\ products' = products
       ELSE IF id \notin DOMAIN products
       THEN /\ res' = Json(404, [message |-> "Product not found"])
            /\ products' = products
       ELSE /\ products' = DeleteById(products, id)
            /\ res' = Json(200, [message |-> "Product deleted successfully"])
    /\ UNCHANGED <<orders, env, now, users, issued, categories, audit, inflight>>

CategoryBodies ==
  { Restrict([slug |-> sl, title |-> "Books"], K) :
      sl \in {"toys", "books"}, K \in {{"slug", "title"}, {"slug"}} }

\* app.post("/api/admin/categories", requireAuth,
\*          requireRole("admin", "moderator"), createCategory)
createCategory ==
  \E headers \in AuthHeaders, body \in CategoryBodies :
    /\ req' = Request("createCategory", headers, Empty, body, Decoded(headers))
    /\ IF Guard(headers, StaffRoles) # NextHandler
       THEN /\ res' = Guard(headers, StaffRoles)
            /\ categories' = categories
       ELSE IF SlugTaken(categories, body, "slug")
       THEN /\ res' = Json(400, [message |-> "Category with this slug already exists"])
            /\ categories' = categories
       ELSE IF ~(CategoryRequiredPaths \subseteq DOMAIN body)
       THEN /\ res' = ServerError
            /\ categories' = categories
       ELSE \E id \in CategoryIds \ DOMAIN categories :
              /\ categories' = (id :> body) @@ categories
              /\ res' = Json(201, [message |-> "Category created successfully",
                                   category |-> ToJSON(id, body)])
    /\ UNCHANGED <<orders, env, now, users, issued, products, audit, inflight>>

\* if (slug) category.slug = slug; if (title) category.title = title;
AssignCategory(doc, body) ==
  [k \in DOMAIN doc |-> IF TruthyStr(body, k) THEN body[k] ELSE doc[k]]

\* app.put("/api/admin/categories/:id", requireAuth,
\*         requireRole("admin", "moderator"), updateCategory)
updateCategory ==
  \E headers \in AuthHeaders, id \in {"c1", "c2", BadId}, body \in CategoryBodies :
    /\ req' = Request("updateCategory", headers, [id |-> id], body,
                      Decoded(headers))
    /\ IF Guard(headers, StaffRoles) # NextHandler
       THEN /\ res' = Guard(headers, StaffRoles)
            /\ categories' = categories
       ELSE IF id \notin CategoryIds
       THEN /\ res' = ServerError
            /\ categories' = categories
       ELSE IF id \notin DOMAIN categories
       THEN /\ res' = Json(404, [message |-> "Category not found"])
            /\ categories' = categories
       ELSE IF /\ TruthyStr(body, "slug")
               /\ body.slug # categories[id].slug
               /\ SlugTaken(categories, body, "slug")
       THEN /\ res' = Json(400, [message |-> "Category with this slug already exists"])
            /\ categories' = categories
       ELSE /\ categories' = [categories EXCEPT ![id] = AssignCategory(categories[id], body)]
            /\ res' = Json(200, [message |-> "Category updated successfully",
                                 category |-> ToJSON(id, categories'[id])])
    /\ UNCHANGED <<orders, env, now, users, issued, products, audit, inflight>>

\* Product.countDocuments({ categorySlug: category.slug })
ProductsCount(slug) ==
  Cardinality({id \in DOMAIN products : products[id].categorySlug = slug})

\* app.delete("/api/admin/categories/:id", requireAuth,
\*            requireRole("admin", "moderator"), deleteCategory)
deleteCategory ==
  \E headers \in AuthHeaders, id \in {"c1", "c2", BadId} :
    /\ req' = Request("deleteCategory", headers, [id |-> id], Empty,
                      Decoded(headers))
    /\ IF Guard(headers, StaffRoles) # NextHandler
       THEN /\ res' = Guard(headers, StaffRoles)
            /\ categories' = categories
       ELSE IF id \notin CategoryIds
       THEN /\ res' = ServerError
            /\ categories' = categories
       ELSE IF id \notin DOMAIN categories
       THEN /\ res' = Json(404, [message |-> "Category not found"])
            /\ categories' = categories
       ELSE IF ProductsCount(categories[id].slug) > 0
       THEN /\ res' = Json(400, [message |-> "Cannot delete category",
                                 productsCount |-> ProductsCount(categories[id].slug)])
            /\ categories' = categories
       ELSE /\ categories' = DeleteById(categories, id)
            /\ res' = Json(200, [message |-> "Category deleted successfully"])
    /\ UNCHANGED <<orders, env, now, users, issued, products, audit, inflight>>

\* ------------------------------------------------------ delivery handlers
CourierBodies ==
  { Restrict([courierId |-> c, courierName |-> "Ali", courierPhone |-> Phone3,
              estimatedTime |-> e], K) :
      c \in {"k1", ""}, e \in {0, 30},
      K \in {{"courierId", "courierName", "courierPhone", "estimatedTime"},
             {"courierId", "courierName", "courierPhone"}} }

CourierPaths == {"courierId", "courierName", "courierPhone"}

\* order.delivery.courierId = courierId; ...courierName...; ...courierPhone...;
\* if (estimatedTime) order.delivery.estimatedTime = estimatedTime;
\* Assigning undefined unsets the path.
AssignDelivery(delivery, body) ==
  LET kept == DOMAIN delivery \ CourierPaths
      given == DOMAIN body \cap CourierPaths
      time == IF TruthyNum(body, "estimatedTime") THEN {"estimatedTime"} ELSE {}
  IN  [k \in kept \cup given \cup time |->
         IF k \in time THEN body.estimatedTime
         ELSE IF k \in given THEN body[k]
         ELSE delivery[k]]

\* The document after assignCourier's assignments and order.save(): only
\* the modified delivery paths are validated, and updatedAt is set.
WithCourier(doc, body, t) ==
  [doc EXCEPT !.delivery = AssignDelivery(doc.delivery, body), !.updatedAt = t]

\* app.put("/api/admin/orders/:id/courier", requireAuth,
\*         requireRole("admin", "moderator"), assignCourier)
assignCourier ==
  \E headers \in AuthHeaders, id \in OrderIdInputs, body \in CourierBodies :
    /\ req' = Request("assignCourier", headers, [id |-> id], body,
                      Decoded(headers))
    /\ IF Guard(headers, StaffRoles) # NextHandler
       THEN /\ res' = Guard(headers, StaffRoles)
            /\ orders' = orders
       ELSE IF ~IsObjectId(id)
       THEN /\ res' = ServerError
            /\ orders' = orders
       ELSE IF id \notin DOMAIN orders
       THEN /\ res' = Json(404, [message |-> "Order not found"])
            /\ orders' = orders
       ELSE /\ orders' = [orders EXCEPT ![id] = WithCourier(orders[id], body, now)]
            /\ res' = Json(200, [message |-> "Courier assigned successfully",
                                 order |-> ToJSON(id, orders'[id])])
    /\ UNCHANGED <<env, now, users, issued, products, categories, audit, inflight>>

\* The bodies two dispatchers send when each assigns their own courier.
RacingCourierBodies ==
  {[courierId |-> "k1", courierName |-> "Ali", courierPhone |-> Phone3],
   [courierId |-> "k2", courierName |-> "Vali", courierPhone |-> Phone4]}

\* assignCourier up to its first await: the guards, and
\* `const order = await Order.findById(id)` with the 404 that follows it.
\* A handler that found the order is suspended holding the document read.
assignCourierFind ==
  \E w \in Workers, headers \in AuthHeaders, id \in OrderIdInputs,
     body \in RacingCourierBodies :
    LET r == Request("assignCourier", headers, [id |-> id], body, Decoded(headers))
        answered(response) ==
          /\ req' = r
          /\ res' = response
          /\ inflight' = inflight
    IN  /\ inflight[w] = Empty
        /\ IF Guard(headers, StaffRoles) # NextHandler
           THEN answered(Guard(headers, StaffRoles))
           ELSE IF ~IsObjectId(id)
           THEN answered(ServerError)
           ELSE IF id \notin DOMAIN orders
           THEN answered(Json(404, [message |-> "Order not found"]))
           ELSE /\ inflight' = [inflight EXCEPT ![w] = [req |-> r, order |-> orders[id]]]
                /\ UNCHANGED <<req, res>>
        /\ UNCHANGED <<orders, env, now, users, issued, products, categories, audit>>

\* assignCourier from its second await: `await order.save()` sends the
\* modified delivery paths as one update of the stored document, whatever
\* that document has become since it was read (the schema sets no
\* optimisticConcurrency), and the handler answers with its own copy.
assignCourierSave ==
  \E w \in Workers :
    /\ Suspended(w, "assignCourier")
    /\ LET r == inflight[w].req
           id == r.params.id
       IN  /\ req' = r
           /\ orders' = [orders EXCEPT ![id] = WithCourier(orders[id], r.body, now)]
           /\ res' = Json(200, [message |-> "Courier assigned successfully",
                                order |-> ToJSON(id, WithCourier(inflight[w].order,
                                                                r.body, now))])
    /\ inflight' = [inflight EXCEPT ![w] = Empty]
    /\ UNCHANGED <<env, now, users, issued, products, categories, audit>>

\* The stages of a delivery, in order.
Stages ==
  <<"pending", "confirmed", "preparing", "ready_for_delivery", "in_transit",
    "delivered">>

Stage(s) == [status |-> s, completed |-> TRUE]

TimelineFromConfirmed(status) ==
  <<Stage("pending")>>
    \o (IF status \in {"confirmed", "preparing", "ready_for_delivery",
                       "in_transit", "delivered"}
        THEN <<Stage("confirmed"), Stage("preparing")>> ELSE <<>>)
    \o (IF status \in {"ready_for_delivery", "in_transit", "delivered"}
        THEN <<Stage("ready_for_delivery")>> ELSE <<>>)
    \o (IF status \in {"in_transit", "delivered"}
        THEN <<Stage("in_transit")>> ELSE <<>>)
    \o (IF status = "delivered" THEN <<Stage("delivered")>> ELSE <<>>)

\* The timeline trackOrder builds: pending is always pushed, every further
\* stage when the status is in that stage's list.
Timeline(status) ==
  <<Stage("pending")>>
    \o (IF status \in {"confirmed", "preparing", "ready_for_delivery",
                       "in_transit", "delivered"}
        THEN <<Stage("confirmed")>> ELSE <<>>)
    \o (IF status \in {"preparing", "ready_for_delivery", "in_transit",
                       "delivered"}
        THEN <<Stage("preparing")>> ELSE <<>>)
    \o (IF status \in {"ready_for_delivery", "in_transit", "delivered"}
        THEN <<Stage("ready_for_delivery")>> ELSE <<>>)
    \o (IF status \in {"in_transit", "delivered"}
        THEN <<Stage("in_transit")>> ELSE <<>>)
    \o (IF status = "delivered" THEN <<Stage("delivered")>> ELSE <<>>)

CourierKey(k) == IF k = "name" THEN "courierName" ELSE "courierPhone"

\* order.delivery.courierId ? { name, phone } : null
CourierOf(delivery) ==
  IF TruthyStr(delivery, "courierId")
  THEN [k \in {x \in {"name", "phone"} : Has(delivery, CourierKey(x))} |->
          delivery[CourierKey(k)]]
  ELSE [null |-> TRUE]

\* The body trackOrder answers for a document (order.id is undefined on a
\* lean document and is left out, as is an undefined estimatedTime).
Tracking(doc) ==
  [order |-> [status |-> doc.status, total |-> doc.totals.total]
               @@ Restrict(doc.delivery, {"estimatedTime"}),
   timeline |-> Timeline(doc.status),
   courier |-> CourierOf(doc.delivery)]

\* app.get("/api/delivery/track/:orderId", trackOrder)
trackOrder ==
  \E orderId \in {"o1", "o2", "o3", BadId} :
    /\ req' = Request("trackOrder", Empty, [orderId |-> orderId], Empty, Empty)
    /\ res' = IF ~IsObjectId(orderId) THEN ServerError
              ELSE IF orderId \notin DOMAIN orders
              THEN Json(404, [message |-> "Order not found"])
              ELSE Json(200, Tracking(orders[orderId]))
    /\ UNCHANGED <<orders, env, now, users, issued, products, categories, audit, inflight>>

RECURSIVE SortedByCreatedAt(_, _)
\* The sequences find(...).sort({ createdAt: -1 }) may return for the ids
\* in S: newest first, documents of equal createdAt in any order.
SortedByCreatedAt(store, S) ==
  IF S = {} THEN {<<>>}
  ELSE UNION { { <<id>> \o rest : rest \in SortedByCreatedAt(store, S \ {id}) } :
               id \in {i \in S : \A j \in S : store[i].createdAt >= store[j].createdAt} }

\* Order.find({ userId })
OrdersOf(store, userId) == {id \in DOMAIN store : store[id].userId = userId}

CustomerRoles == {"user", "admin", "moderator"}

\* app.get("/api/orders/my", requireAuth,
\*         requireRole("user", "admin", "moderator"), getMyOrders)
getMyOrders ==
  \E headers \in AuthHeaders :
    /\ req' = Request("getMyOrders", headers, Empty, Empty, Decoded(headers))
    /\ IF Guard(headers, CustomerRoles) # NextHandler
       THEN res' = Guard(headers, CustomerRoles)
       ELSE \E found \in SortedByCreatedAt(orders, OrdersOf(orders, Decoded(headers).id)) :
              res' = Json(200, [orders |-> [i \in 1..Len(found) |->
                                              ToJSON(found[i], orders[found[i]])]])
    /\ UNCHANGED <<orders, env, now, users, issued, products, categories, audit, inflight>>

\* --------------------------------------------------------------- audit log
\* AuditLogSchema: the enums and the required paths.
AuditRoleEnum == {"admin", "moderator", "user"}

AuditActionEnum ==
  {"login", "logout", "register", "profile_update",
   "create", "read", "update", "delete", "list",
   "approve", "reject", "moderate", "assign", "unassign",
   "activate", "deactivate", "reset_password", "change_role",
   "order_create", "order_update", "order_cancel", "order_deliver",
   "backup", "restore", "system_config"}

AuditResourceEnum ==
  {"user", "product", "category", "order", "comment",
   "delivery", "payment", "coupon", "analytics", "system"}

AuditRequiredPaths == {"userId", "userName", "userRole", "action", "resource"}

\* Document validation run by auditLog.save().
AuditValid(entry) ==
  /\ AuditRequiredPaths \subseteq DOMAIN entry
  /\ entry.userRole \in AuditRoleEnum
  /\ entry.action \in AuditActionEnum
  /\ entry.resource \in AuditResourceEnum

\* The store either takes the write or fails it.
WriteOutcomes == {"saved", "error"}

LogActionRethrow(log, entry, db) ==
  IF db = "saved" /\ AuditValid(entry)
  THEN [audit |-> Append(log, entry), threw |-> FALSE]
  ELSE [audit |-> log, threw |-> TRUE]

\* logAction(logData): try { new AuditLog(...); await save() } catch { log }.
\* It yields the collection afterwards and whether its promise rejects.
LogAction(log, entry, db) ==
  IF db = "saved" /\ AuditValid(entry)
  THEN [audit |-> Append(log, entry), threw |-> FALSE]
  ELSE [audit |-> log, threw |-> FALSE]

SensitiveFields ==
  {"password", "confirmPassword", "oldPassword", "newPassword", "token",
   "secret"}

Redacted == "[REDACTED]"

\* sanitizeBody(body): a shallow copy whose truthy sensitive fields are
\* replaced by the marker.
SanitizeBody(body) ==
  [k \in DOMAIN body |->
     IF k \in SensitiveFields /\ body[k] # "" THEN Redacted ELSE body[k]]

\* req.user as requireAuth leaves it (the token's id and role), as
\* authenticateToken leaves it (id, role, name, phone), or undefined.
AuditCallers ==
  {Empty,
   [id |-> "u3", role |-> "cashier"],
   [id |-> "u2", role |-> "admin", name |-> "Bob", phone |-> Phone2]}

\* The request bodies sent through the wrapper.
AuditedBodies == {Empty, [name |-> "Dan", password |-> "pw"]}

\* What a wrapped handler passes to res.status(...).json(...).
HandlerResponses ==
  {Json(200, [message |-> "User updated successfully"]),
   Json(400, [message |-> "Phone number already registered"])}

\* The logData the res.json wrapper builds.
LogData(user, action, method, resource, body, sent) ==
  [userId |-> user.id,
   userName |-> IF TruthyStr(user, "name") THEN user.name ELSE "Unknown",
   userRole |-> IF TruthyStr(user, "role") THEN user.role ELSE "unknown",
   action |-> IF action # "" THEN action ELSE method,
   resource |-> resource,
   details |-> [body |-> SanitizeBody(body), statusCode |-> sent.status],
   success |-> sent.status < 400]
    @@ (IF sent.status >= 400
        THEN [errorMessage |-> IF TruthyStr(sent.body, "message")
                               THEN sent.body.message ELSE "Unknown error"]
        ELSE Empty)

\* auditLogger(resource, action) and the res.json wrapper it installs, for a
\* response a handler sends through it.  The wrapper logs when req.user.id
\* is set, does not wait for logAction (its rejection goes to console.error)
\* and then calls the original res.json.  No route mounts it.
auditLogger ==
  \E user \in AuditCallers, action \in {"create", ""}, body \in AuditedBodies,
     sent \in HandlerResponses, db \in WriteOutcomes :
    LET written == LogAction(audit, LogData(user, action, "post", "user", body, sent), db)
    IN  /\ req' = Request("auditLogger", Empty, Empty, body, user)
        /\ audit' = IF Has(user, "id") THEN written.audit ELSE audit
        /\ Len(audit') <= MaxAudit
        /\ res' = sent
        /\ UNCHANGED <<orders, env, now, users, issued, products, categories,
                       inflight>>

UserKey(k) ==
  IF k = "userId" THEN "id" ELSE IF k = "userName" THEN "name" ELSE "role"

\* The logData logUserAction builds (undefined fields are left out).
UserActionData(user, action, resource, resourceId, details) ==
  [k \in {x \in {"userId", "userName", "userRole"} : Has(user, UserKey(x))} |->
     user[UserKey(k)]]
    @@ [action |-> action, resource |-> resource, resourceId |-> resourceId,
        details |-> details]

RoleInputs == {"admin", "moderator", "cashier"}

\* changeUserRole, a handler that records its action with logUserAction
\* (awaited inside the handler's try).  No route mounts it.
changeUserRole ==
  \E user \in AuditCallers, userId \in {"u1", "u4", BadId}, role \in RoleInputs,
     db \in WriteOutcomes :
    LET body == [role |-> role]
        doc == [users[userId] EXCEPT !.role = role]
        data == UserActionData(user, "change_role", "user", userId,
                               [oldRole |-> users[userId].role, newRole |-> role])
        written == IF user = Empty THEN [audit |-> audit, threw |-> FALSE]
                   ELSE LogAction(audit, data, db)
        failure == Json(500, [success |-> FALSE,
                              message |-> "User role o'zgartirishda xatolik yuz berdi"])
    IN  /\ req' = Request("changeUserRole", Empty, [userId |-> userId], body, user)
        /\ IF role \notin {"admin", "moderator", "user"}
           THEN /\ res' = Json(400, [success |-> FALSE, message |-> "Noto'g'ri rol"])
                /\ UNCHANGED <<users, audit, inflight>>
           ELSE IF ~IsUserId(userId)
           THEN /\ res' = failure
                /\ UNCHANGED <<users, audit, inflight>>
           ELSE IF userId \notin DOMAIN users
           THEN /\ res' = Json(404, [success |-> FALSE,
                                     message |-> "Foydalanuvchi topilmadi"])
                /\ UNCHANGED <<users, audit, inflight>>
           ELSE IF ~UserValid(doc)
           THEN /\ res' = failure
                /\ UNCHANGED <<users, audit, inflight>>
           ELSE /\ users' = [users EXCEPT ![userId] = doc]
                /\ audit' = written.audit
                /\ Len(audit') <= MaxAudit
                /\ res' = IF written.threw THEN failure
                          ELSE Json(200, [success |-> TRUE,
                                          data |-> [id |-> userId, name |-> doc.name,
                                                    role |-> doc.role]])
        /\ UNCHANGED <<orders, env, now, issued, products, categories, inflight>>

\* ------------------------------------------------------ permission table
\* PERMISSIONS: per role, the actions allowed on each resource.
PERMISSIONS ==
  [ADMIN |->
     [users |-> {"create", "read", "update", "delete", "list"},
      products |-> {"create", "read", "update", "delete", "list"},
      categories |-> {"create", "read", "update", "delete", "list"},
      orders |-> {"create", "read", "update", "delete", "list", "manage"},
      comments |-> {"create", "read", "update", "delete", "moderate"},
      analytics |-> {"view", "export"},
      system |-> {"settings", "logs", "backup"},
      delivery |-> {"manage", "assign", "track"}],
   MODERATOR |->
     [users |-> {"read", "list"},
      products |-> {"create", "read", "update", "list"},
      categories |-> {"read", "list"},
      orders |-> {"read", "update", "list", "manage"},
      comments |-> {"read", "update", "delete", "moderate"},
      analytics |-> {"view"},
      delivery |-> {"manage", "assign", "track"}],
   USER |->
     [users |-> {},
      products |-> {"read", "list"},
      categories |-> {"read", "list"},
      orders |-> {},
      comments |-> {"create", "read", "update"},
      analytics |-> {},
      delivery |-> {"track"}]]

\* keyof typeof PERMISSIONS.ADMIN
Resources ==
  {"users", "products", "categories", "orders", "comments", "analytics",
   "system", "delivery"}

PermissionActions ==
  {"create", "read", "update", "delete", "list", "manage", "moderate",
   "view", "export", "settings", "logs", "backup", "assign", "track"}

\* req.user.role.toUpperCase()
ToUpperCase(role) ==
  CASE role = "admin" -> "ADMIN"
    [] role = "moderator" -> "MODERATOR"
    [] role = "user" -> "USER"
    [] role = "cashier" -> "CASHIER"
    [] OTHER -> role

\* permissions && permissions[resource] && permissions[resource].includes(action)
TableAllows(role, resource, action) ==
  /\ Has(PERMISSIONS, ToUpperCase(role))
  /\ Has(PERMISSIONS[ToUpperCase(role)], resource)
  /\ action \in PERMISSIONS[ToUpperCase(role)][resource]

\* checkPermission(resource, action): the response it sends, or NextHandler.
CheckPermission(user, resource, action) ==
  IF ~Has(user, "id")
  THEN Json(401, [message |-> "Authentication required"])
  ELSE IF ~TableAllows(user.role, resource, action)
  THEN Json(403, [message |-> <<"Access denied", action, resource>>,
                  userRole |-> user.role,
                  requiredPermission |-> <<resource, action>>])
  ELSE NextHandler

\* req.user as a middleware in front of checkPermission leaves it: a caller
\* of every role a token may carry, or undefined.
PermissionCallers ==
  {Empty} \cup {[id |-> "u1", role |-> r] : r \in {"admin", "moderator", "user", "cashier"}}

\* checkPermission(resource, action) applied to a request.
checkPermission ==
  \E user \in PermissionCallers, resource \in Resources, action \in PermissionActions :
    /\ req' = Request("checkPermission", Empty,
                      [resource |-> resource, action |-> action], Empty, user)
    /\ res' = CheckPermission(user, resource, action)
    /\ UNCHANGED <<orders, env, now, users, issued, products, categories, audit,
                   inflight>>

\* Time passes between requests.
Tick ==
  /\ now < MaxTime
  /\ now' = now + 1
  /\ UNCHANGED <<orders, env, req, res, users, issued, products, categories,
                 audit, inflight>>

Next ==
  \/ createPayme
  \/ createClick
  \/ paymeWebhook
  \/ clickWebhook
  \/ createOrder
  \/ updateOrderStatus
  \/ signup
  \/ signupFind
  \/ signupCreate
  \/ login
  \/ createUser
  \/ updateUser
  \/ deleteUser
  \/ createProduct
  \/ updateProduct
  \/ deleteProduct
  \/ createCategory
  \/ updateCategory
  \/ deleteCategory
  \/ assignCourier
  \/ assignCourierFind
  \/ assignCourierSave
  \/ trackOrder
  \/ getMyOrders
  \/ auditLogger
  \/ changeUserRole
  \/ checkPermission
  \/ Tick

Spec == Init /\ [][Next]_vars

\* The payment routes alone.
NextPayments ==
  \/ createPayme
  \/ createClick
  \/ paymeWebhook
  \/ clickWebhook
  \/ Tick

SpecPayments == Init /\ [][NextPayments]_vars

\* The order routes alone.
NextOrders ==
  \/ createOrder
  \/ updateOrderStatus
  \/ Tick

SpecOrders == Init /\ [][NextOrders]_vars

\* One initial state: order o1 pending and unpaid, no provider secrets.
InitPending ==
  /\ Init
  /\ env = Empty
  /\ orders["o1"].status = "pending"
  /\ orders["o1"].paymentStatus = "pending"

\* The same start before any admin has logged in: only the customer's and
\* the cashier's tokens are signed.
InitNoStaff ==
  /\ orders \in InitialStores
  /\ orders["o1"].status = "pending"
  /\ orders["o1"].paymentStatus = "pending"
  /\ env = Empty
  /\ now = 0
  /\ req = Request("none", Empty, Empty, Empty, Empty)
  /\ res = Json(0, [none |-> TRUE])
  /\ users = InitialUsers
  /\ issued = {SignToken(id, InitialUsers[id]) : id \in {"u1", "u3"}}
  /\ products = InitialProducts
  /\ categories = InitialCategories
  /\ audit = <<>>
  /\ inflight = [w \in Workers |-> Empty]

\* The mutations the route table mounts behind requireRole with a staff
\* allow-list, called while no staff token exists.
NextRbac ==
  \/ updateOrderStatus
  \/ assignCourier
  \/ createUser
  \/ updateUser
  \/ deleteUser
  \/ createProduct
  \/ updateProduct
  \/ deleteProduct
  \/ createCategory
  \/ updateCategory
  \/ deleteCategory

SpecRbac == InitNoStaff /\ [][NextRbac]_vars

\* The routes that create and delete accounts, and a route behind
\* requireAuth to present tokens to.
NextAccounts ==
  \/ signup
  \/ createUser
  \/ deleteUser
  \/ getMyOrders

SpecAccounts == InitPending /\ [][NextAccounts]_vars

\* Orders in every status of the schema, no provider secret configured.
InitTracking ==
  /\ Init
  /\ env = Empty

\* Status changes and tracking.
NextTracking ==
  \/ updateOrderStatus
  \/ trackOrder

SpecTracking == InitTracking /\ [][NextTracking]_vars

\* Courier assignment and the routes that read orders.
NextCourier ==
  \/ assignCourier
  \/ trackOrder
  \/ getMyOrders

SpecCourier == InitTracking /\ [][NextCourier]_vars

\* The two places that write the audit log.
NextAudit ==
  \/ auditLogger
  \/ changeUserRole

SpecAudit == InitPending /\ [][NextAudit]_vars

\* Two courier assignments in progress at once.
NextRace ==
  \/ assignCourierFind
  \/ assignCourierSave

SpecRace == InitPending /\ [][NextRace]_vars

\* The permission middleware applied to every role, resource and action.
NextPermissions ==
  \/ checkPermission

SpecPermissions == InitPending /\ [][NextPermissions]_vars

\* Two signups in progress at once.
NextSignupRace ==
  \/ signupFind
  \/ signupCreate

SpecSignupRace == InitPending /\ [][NextSignupRace]_vars

\* An order already paid, the provider secrets configured.
InitPaid ==
  /\ Init
  /\ env # Empty
  /\ orders["o1"].paymentStatus = "paid"

\* Every operation that writes to an existing order.
NextPaid ==
  \/ createPayme
  \/ createClick
  \/ paymeWebhook
  \/ clickWebhook
  \/ updateOrderStatus
  \/ assignCourier

SpecPaid == InitPaid /\ [][NextPaid]_vars

\* Account updates by every caller, the admin included.
NextUpdateUser ==
  \/ updateUser

SpecUpdateUser == InitPending /\ [][NextUpdateUser]_vars

\* ------------------------------------------------------ terms of the claims
IsWebhook(r) == r.op \in {"paymeWebhook", "clickWebhook"}

IsCreateIntent(r) == r.op \in {"createPayme", "createClick"}

ProviderOf(r) == IF r.op \in {"createPayme", "paymeWebhook"} THEN "payme" ELSE "click"

SecretNameOf(r) == IF r.op = "paymeWebhook" THEN "PAYME_SECRET" ELSE "CLICK_SECRET"

SecretSet(r) == Has(env, SecretNameOf(r)) /\ env[SecretNameOf(r)] # ""

\* The x-signature header is the hex HMAC of the body under the provider's
\* secret.
ValidSignature(r) ==
  /\ SecretSet(r)
  /\ Has(r.headers, "x-signature")
  /\ r.headers["x-signature"] = Hmac(env[SecretNameOf(r)], Stringify(r.body))

\* The header is there and has as many bytes as a hex digest, but is not
\* the digest of the body.
SameLengthWrongSignature(r) ==
  /\ Has(r.headers, "x-signature")
  /\ Len(BufferFrom(r.headers["x-signature"])) = HexLen
  /\ ~ValidSignature(r)

WellFormedPayload(r) ==
  /\ Has(r.body, "intentId") /\ r.body.intentId # ""
  /\ Has(r.body, "orderId") /\ r.body.orderId # ""

\* A valid-signature, well-formed delivery for an order of the collection.
SettlingDelivery(r, store) ==
  /\ IsWebhook(r)
  /\ ValidSignature(r)
  /\ WellFormedPayload(r)
  /\ r.body.orderId \in DOMAIN store

PaidAtRecorded(doc) == Has(doc, "paidAt") \/ Has(doc, "payment.paidAt")

\* A step that handles a request (the clock stands still while it does).
Handled == now' = now

\* The request carried a verified token whose role is in the route's list.
Admitted(r, roles) == Has(r.user, "role") /\ r.user.role \in roles

\* The request presents a token whose role is in the list.
CallerRoleIn(r, roles) ==
  /\ Has(r.headers, "authorization")
  /\ Has(r.headers.authorization, "role")
  /\ r.headers.authorization.role \in roles

\* C1: delivering the same valid-signature, well-formed payload again is
\* answered 200 every time, leaves the order paid, and a repeated delivery
\* changes nothing the first one had not already done.
C1_WebhookIdempotent ==
  [][ (Handled /\ SettlingDelivery(req', orders)) =>
        /\ res'.status = 200
        /\ orders'[req'.body.orderId].paymentStatus = "paid"
        /\ (req = req' /\ res.status = 200) => orders' = orders ]_vars

\* C2: after a valid-signature delivery carrying intentId and the orderId of
\* an existing order, the order is paid, has a paidAt time, and the answer
\* is 200 {ok: true}.
C2_Settlement ==
  SettlingDelivery(req, orders) =>
    /\ res = Json(200, [ok |-> TRUE])
    /\ orders[req.body.orderId].paymentStatus = "paid"
    /\ PaidAtRecorded(orders[req.body.orderId])

\* C3: a delivery whose x-signature has the length of the expected hex HMAC
\* but another value is answered 401 and changes no order, whatever the
\* payload.
C3_SignatureRejection ==
  [][ (Handled /\ IsWebhook(req') /\ SameLengthWrongSignature(req')) =>
        (res'.status = 401 /\ orders' = orders) ]_vars

\* A same-length wrong signature was presented with the secret configured
\* and the delivery was answered 401.
C3_Witness ==
  /\ IsWebhook(req)
  /\ SecretSet(req)
  /\ SameLengthWrongSignature(req)
  /\ WellFormedPayload(req)
  /\ req.body.orderId \in DOMAIN orders
  /\ res.status = 401

\* C4: every delivery whose signature does not verify (no header, no secret,
\* or a header of any length that is not the hex HMAC of the body) is
\* answered 401 and changes no order.
C4_FailClosed ==
  [][ (Handled /\ IsWebhook(req') /\ ~ValidSignature(req')) =>
        (res'.status = 401 /\ orders' = orders) ]_vars

\* C5: createPayme / createClick without a truthy orderId or amount are
\* answered 400 "orderId and amount required", a valid-signature webhook
\* whose payload lacks intentId or orderId is answered 400, and neither
\* changes an order.
C5_PaymentRequestValidation ==
  [][ Handled =>
        /\ ( /\ IsCreateIntent(req')
             /\ \/ ~Has(req'.body, "orderId") \/ req'.body.orderId = ""
                \/ ~Has(req'.body, "amount") \/ req'.body.amount = 0 )
           => ( /\ res' = Json(400, [message |-> "orderId and amount required"])
                /\ orders' = orders )
        /\ (IsWebhook(req') /\ ValidSignature(req') /\ ~WellFormedPayload(req'))
           => (res'.status = 400 /\ orders' = orders) ]_vars

\* A valid-signature delivery without an orderId was answered 400.
C5_Witness ==
  /\ IsWebhook(req)
  /\ ValidSignature(req)
  /\ Has(req.body, "intentId")
  /\ ~Has(req.body, "orderId")
  /\ res = Json(400, [message |-> "invalid payload"])

\* C6: createPayme / createClick with truthy orderId and amount on an existing
\* order store paymentMethod = provider, paymentStatus = pending and
\* paymentIntentId = the returned intentId, which differs from the one the
\* call before returned for the same order.
C6_CreateIntentPersistence ==
  [][ ( /\ Handled
        /\ IsCreateIntent(req')
        /\ Has(req'.body, "orderId") /\ req'.body.orderId \in DOMAIN orders
        /\ Has(req'.body, "amount") /\ req'.body.amount # 0 )
      => LET doc == orders'[req'.body.orderId]
         IN  /\ res'.status = 200
             /\ Has(doc, "paymentMethod") /\ doc.paymentMethod = ProviderOf(req')
             /\ doc.paymentStatus = "pending"
             /\ Has(doc, "paymentIntentId")
             /\ doc.paymentIntentId = res'.body.intentId
             /\ ( /\ IsCreateIntent(req) /\ res.status = 200
                  /\ req.body.orderId = req'.body.orderId )
                => res'.body.intentId # res.body.intentId ]_vars

\* C7: updateOrderStatus (from a caller the route admits) with a status
\* outside the schema's status enum is answered 400 and no order's status changes.
C7_StatusValidation ==
  [][ ( /\ Handled
        /\ req'.op = "updateOrderStatus"
        /\ Admitted(req', StaffRoles)
        /\ ~(Has(req'.body, "status") /\ req'.body.status \in OrderStatusEnum) )
      => /\ res'.status = 400
         /\ \A id \in DOMAIN orders : orders'[id].status = orders[id].status ]_vars

\* C8: updateOrderStatus (from a caller the route admits) with any status of
\* the schema's enum is answered 200
\* and sets that status on an existing order, whatever its current status;
\* for an orderId (a well-formed id) that matches no order it is answered
\* 404 and nothing changes.
C8_PermissiveTransitions ==
  [][ ( /\ Handled
        /\ req'.op = "updateOrderStatus"
        /\ Admitted(req', StaffRoles)
        /\ IsObjectId(req'.params.orderId)
        /\ Has(req'.body, "status") /\ req'.body.status \in OrderStatusEnum )
      => IF req'.params.orderId \in DOMAIN orders
         THEN /\ res'.status = 200
              /\ orders'[req'.params.orderId].status = req'.body.status
         ELSE /\ res'.status = 404
              /\ orders' = orders ]_vars

\* A createOrder body with items (each qty >= 1), totals and address.
CompleteOrderBody(body) ==
  /\ Has(body, "items") /\ Has(body, "totals") /\ Has(body, "address")
  /\ body.items # <<>>
  /\ \A i \in 1..Len(body.items) : body.items[i].qty >= 1

\* C9: createOrder with non-empty items (qty >= 1), totals and address from an
\* authenticated caller is answered 201 and adds exactly one order, with a
\* generated id, the caller as userId, the submitted items, totals and
\* address, status pending and paymentStatus pending.
C9_CreateOrder ==
  [][ ( /\ Handled
        /\ req'.op = "createOrder"
        /\ Has(req'.user, "id")
        /\ CompleteOrderBody(req'.body) )
      => /\ res'.status = 201
         /\ \E id \in DOMAIN orders' \ DOMAIN orders :
              /\ DOMAIN orders' = DOMAIN orders \cup {id}
              /\ res'.body.id = id
              /\ orders'[id].userId = req'.user.id
              /\ orders'[id].items = req'.body.items
              /\ orders'[id].totals = req'.body.totals
              /\ orders'[id].address = req'.body.address
              /\ orders'[id].status = "pending"
              /\ orders'[id].paymentStatus = "pending"
         /\ \A id \in DOMAIN orders : orders'[id] = orders[id] ]_vars

\* C10: a createOrder request whose items list is empty or has an item with
\* qty < 1, or that lacks totals or address, is answered 400 and creates no
\* order.
C10_CreateOrderValidation ==
  [][ ( /\ Handled
        /\ req'.op = "createOrder"
        /\ Has(req'.user, "id")
        /\ \/ ~Has(req'.body, "totals")
           \/ ~Has(req'.body, "address")
           \/ /\ Has(req'.body, "items")
              /\ \/ req'.body.items = <<>>
                 \/ \E i \in 1..Len(req'.body.items) : req'.body.items[i].qty < 1 )
      => (res'.status = 400 /\ orders' = orders) ]_vars

\* The mutations the route table reserves for staff.
AdminMutations ==
  {"updateOrderStatus", "assignCourier", "createUser", "updateUser",
   "deleteUser", "createProduct", "updateProduct", "deleteProduct",
   "createCategory", "updateCategory", "deleteCategory"}

\* The request carried a verified token with this role.
CallerRole(r, role) == Has(r.user, "role") /\ r.user.role = role

\* C11: a caller whose token carries the role user is answered 403 by every
\* admin-only mutation (order status update, courier assignment, user
\* create/update/delete, product and category create/update/delete), and no
\* collection changes.
C11_Rbac ==
  [][ (Handled /\ req'.op \in AdminMutations /\ CallerRole(req', "user")) =>
        /\ res'.status = 403
        /\ UNCHANGED <<orders, users, products, categories>> ]_vars

\* A customer asked to delete an existing product and was answered 403.
C11_Witness ==
  /\ req.op = "deleteProduct"
  /\ CallerRole(req, "user")
  /\ req.params.id \in DOMAIN products
  /\ res = Json(403, [message |-> "Forbidden"])

\* A deleteUser request whose target is the caller's own, existing account.
SelfDeletion(r, store) ==
  /\ r.op = "deleteUser"
  /\ Has(r.user, "id")
  /\ r.params.id = r.user.id
  /\ r.user.id \in DOMAIN store

\* C12 as stated: a deleteUser request whose target id is the caller's own id
\* is answered 400 and the account still exists, for every caller role.
C12_SelfDeletionAlways400 ==
  [][ (Handled /\ SelfDeletion(req', users)) =>
        (res'.status = 400 /\ req'.params.id \in DOMAIN users') ]_vars

\* C12: a deleteUser request whose target id is the caller's own id is
\* answered 400 when the caller's role is admin and 403 (by the route's
\* requireRole("admin")) for every other role; the account still exists and
\* no account changes.
C12_SelfDeletion ==
  [][ (Handled /\ SelfDeletion(req', users)) =>
        /\ res'.status = IF req'.user.role = "admin" THEN 400 ELSE 403
        /\ users' = users ]_vars

\* An admin asked to delete their own account and was answered 400.
C12_Witness ==
  /\ SelfDeletion(req, users)
  /\ req.user.role = "admin"
  /\ res = Json(400, [message |-> "Cannot delete your own account"])

\* The step creates an account with role admin, or deletes one.
AdminAccountCreated(id) ==
  id \notin DOMAIN users /\ id \in DOMAIN users' /\ users'[id].role = "admin"

AdminAccountDeleted(id) ==
  id \in DOMAIN users /\ users[id].role = "admin" /\ id \notin DOMAIN users'

\* C13: an account with role admin is created, and an account with role
\* admin is deleted, only by a request (signup, createUser or deleteUser)
\* whose caller is authenticated with role admin.
C13_AdminAccounts ==
  [][ Handled =>
        \A id \in UserIds :
          (AdminAccountCreated(id) \/ AdminAccountDeleted(id)) =>
            CallerRole(req', "admin") ]_vars

\* The routes mounted behind requireAuth.
Protected ==
  AdminMutations \cup {"getMyOrders"}

\* The request presents a token that was signed for an account the
\* collection no longer holds.
TokenOfDeletedAccount(r, store) ==
  /\ Has(r.headers, "authorization")
  /\ Has(r.headers.authorization, "id")
  /\ r.headers.authorization.id \notin DOMAIN store

\* The allow-list the route table gives requireRole on each route.
RolesOf(op) ==
  IF op = "deleteUser" THEN AdminOnly
  ELSE IF op = "getMyOrders" THEN CustomerRoles
  ELSE StaffRoles

\* C14: once an account has been deleted, every later request to a route
\* behind requireAuth that presents the token signed for that account (with
\* a role the route lets through) is answered 401 and its handler does not
\* run.
C14_AccountRecheck ==
  [][ ( /\ Handled
        /\ req'.op \in Protected
        /\ TokenOfDeletedAccount(req', users)
        /\ CallerRoleIn(req', RolesOf(req'.op)) )
      => res'.status = 401 ]_vars

\* The entry the step appended to the audit log.
Appended == audit'[Len(audit')]

\* C15: every authenticated mutating request (here: one whose caller the
\* route admits, so that the handler runs) yields exactly one persisted
\* audit entry, whose details.body has every sensitive field replaced by the
\* redaction marker and whose success flag equals (statusCode < 400).
C15_AuditCompleteness ==
  [][ ( /\ Handled
        /\ req'.op \in AdminMutations
        /\ Has(req'.user, "id")
        /\ CallerRoleIn(req', RolesOf(req'.op)) ) =>
        /\ Len(audit') = Len(audit) + 1
        /\ Appended.success = (res'.status < 400)
        /\ \A k \in DOMAIN Appended.details.body \cap SensitiveFields :
             Appended.details.body[k] = Redacted ]_vars

\* changeUserRole for an existing account with a role both the handler and
\* the User schema accept.
RoleChange(r, store) ==
  /\ r.op = "changeUserRole"
  /\ IsUserId(r.params.userId) /\ r.params.userId \in DOMAIN store
  /\ r.body.role = "admin"

StageIndex(s) == CHOOSE i \in 1..Len(Stages) : Stages[i] = s

\* trackOrder asked for a stored order.
Tracked(r, store) ==
  /\ r.op = "trackOrder"
  /\ r.params.orderId \in DOMAIN store

\* C17: for every order whose status is a delivery stage, trackOrder answers
\* 200 with a timeline that is exactly the stage list up to and including
\* the current status, each entry marked completed, and no later stage.
C17_Timeline ==
  [][ ( /\ Handled
        /\ Tracked(req', orders)
        /\ \E i \in 1..Len(Stages) : Stages[i] = orders[req'.params.orderId].status )
      => /\ res'.status = 200
         /\ res'.body.timeline =
              [i \in 1..StageIndex(orders[req'.params.orderId].status) |->
                 [status |-> Stages[i], completed |-> TRUE]] ]_vars

\* An order in transit was tracked and its timeline has the five stages up
\* to in_transit.
C17_Witness ==
  /\ Tracked(req, orders)
  /\ orders[req.params.orderId].status = "in_transit"
  /\ res.status = 200
  /\ Len(res.body.timeline) = 5
  /\ res.body.timeline[5].status = "in_transit"

\* updateOrderStatus, answered 200, cancelled a stored order.
Cancelling(r, store, after) ==
  /\ r.op = "updateOrderStatus"
  /\ r.params.orderId \in DOMAIN store
  /\ store[r.params.orderId].status # "cancelled"
  /\ after[r.params.orderId].status = "cancelled"

\* The timeline has an entry for stage s.
InTimeline(timeline, s) == \E i \in 1..Len(timeline) : timeline[i].status = s

\* C18: when an order that has reached a delivery stage is cancelled, the
\* timeline trackOrder answers for the cancelled order has that stage.
C18_CancelledTimeline ==
  [][ ( /\ Handled
        /\ Cancelling(req', orders, orders')
        /\ res'.status = 200
        /\ \E i \in 1..Len(Stages) : Stages[i] = orders[req'.params.orderId].status )
      => InTimeline(Tracking(orders'[req'.params.orderId]).timeline,
                    orders[req'.params.orderId].status) ]_vars

\* The ids of the orders in a getMyOrders answer.
Listed(body) == {body.orders[i].id : i \in 1..Len(body.orders)}

\* The caller is the authenticated owner of the order.
OwnedByCaller(r, doc) == Has(r.user, "id") /\ doc.userId = r.user.id

\* C19: getMyOrders answers exactly the orders whose userId is the caller's
\* id, and trackOrder discloses an order to a caller who is not staff only
\* when the order's userId is the caller's id.
C19_OwnOrdersOnly ==
  [][ Handled =>
        /\ (req'.op = "getMyOrders" /\ res'.status = 200) =>
             Listed(res'.body) = OrdersOf(orders, req'.user.id)
        /\ (Tracked(req', orders) /\ res'.status = 200
              /\ ~Admitted(req', StaffRoles)) =>
             OwnedByCaller(req', orders[req'.params.orderId]) ]_vars

\* assignCourier reached an existing order with a caller the route admits.
CourierAssigned(r, store) ==
  /\ r.op = "assignCourier"
  /\ Admitted(r, StaffRoles)
  /\ IsObjectId(r.params.id)
  /\ r.params.id \in DOMAIN store

\* The value of estimatedTime on a delivery, or a marker when it has none.
EstimatedTimeOf(delivery) ==
  IF Has(delivery, "estimatedTime") THEN <<delivery.estimatedTime>> ELSE <<>>

\* C20: assignCourier on an existing order is answered 200 in every status,
\* sets the three courier fields to the given values, sets estimatedTime to
\* the supplied value when one is supplied and keeps it otherwise, and
\* leaves status, paymentStatus, items, totals and userId unchanged; for a
\* well-formed id that matches no order it is answered 404 and nothing changes.
C20_AssignCourier ==
  [][ (Handled /\ req'.op = "assignCourier" /\ Admitted(req', StaffRoles)
         /\ IsObjectId(req'.params.id)) =>
        IF req'.params.id \in DOMAIN orders
        THEN LET old == orders[req'.params.id]
                 new == orders'[req'.params.id]
             IN  /\ res'.status = 200
                 /\ \A k \in CourierPaths :
                      Has(req'.body, k) =>
                        Has(new.delivery, k) /\ new.delivery[k] = req'.body[k]
                 /\ EstimatedTimeOf(new.delivery) =
                      IF Has(req'.body, "estimatedTime")
                      THEN <<req'.body.estimatedTime>>
                      ELSE EstimatedTimeOf(old.delivery)
                 /\ \A k \in {"status", "paymentStatus", "items", "totals", "userId"} :
                      new[k] = old[k]
        ELSE res'.status = 404 /\ orders' = orders ]_vars

\* The step is the save of worker w's suspended assignCourier.
Saving(w) == Suspended(w, "assignCourier") /\ inflight'[w] = Empty

\* The paths of an order a concurrent writer may have changed under a
\* suspended one.
Contended(doc) ==
  [status |-> doc.status, paymentStatus |-> doc.paymentStatus,
   delivery |-> doc.delivery]

\* C21: a write answered 200 is applied only when the stored order still
\* has the status, paymentStatus and delivery the writer read; a writer
\* whose order was changed in between changes nothing of what the other
\* writer stored.
C21_NoLostUpdate ==
  [][ \A w \in Workers :
        (Saving(w) /\ res'.status = 200) =>
          LET id == inflight[w].req.params.id
          IN  \/ Contended(orders[id]) = Contended(inflight[w].order)
              \/ Contended(orders'[id]) = Contended(orders[id]) ]_vars

\* C22: every stored order's status is one of the seven delivery statuses
\* of the schema and its paymentStatus is one of pending, paid, failed.
C22_StatusInvariant ==
  \A id \in DOMAIN orders :
    /\ orders[id].status \in OrderStatusEnum
    /\ orders[id].paymentStatus \in PaymentStatusEnum

\* The paths of an order the payment adapter does not own.
OrderOwnedPaths == {"status", "items", "totals", "address", "delivery", "userId"}

\* C23: createIntent and the webhooks never create an order, and leave the
\* delivery status, items, totals, address, delivery and userId of every
\* existing order unchanged.
C23_PaymentOwnership ==
  [][ (Handled /\ (IsCreateIntent(req') \/ IsWebhook(req'))) =>
        /\ DOMAIN orders' = DOMAIN orders
        /\ \A id \in DOMAIN orders :
             Restrict(orders'[id], OrderOwnedPaths) = Restrict(orders[id], OrderOwnedPaths) ]_vars

\* The mutating endpoints of the core other than the webhooks.
GatedMutations ==
  {"createOrder", "updateOrderStatus", "assignCourier", "createPayme",
   "createClick"}

\* The request carries no bearer token that verifies, and no middleware
\* decoded a caller for it.
NoValidToken(r) ==
  /\ ~Has(r.user, "id")
  /\ Has(r.headers, "authorization") => ~JwtVerify(r.headers.authorization)

\* C24: a request to createOrder, updateOrderStatus, assignCourier or
\* createIntent that carries no valid bearer token never creates or changes
\* an order.
C24_AuthorizationGate ==
  [][ (Handled /\ req'.op \in GatedMutations /\ NoValidToken(req')) =>
        orders' = orders ]_vars

\* The resource and the action of the table each routed mutation is about.
PermissionOf(op) ==
  CASE op = "createUser" -> <<"users", "create">>
    [] op = "updateUser" -> <<"users", "update">>
    [] op = "deleteUser" -> <<"users", "delete">>
    [] op = "createProduct" -> <<"products", "create">>
    [] op = "updateProduct" -> <<"products", "update">>
    [] op = "deleteProduct" -> <<"products", "delete">>
    [] op = "createCategory" -> <<"categories", "create">>
    [] op = "updateCategory" -> <<"categories", "update">>
    [] op = "deleteCategory" -> <<"categories", "delete">>
    [] op = "updateOrderStatus" -> <<"orders", "update">>
    [] op = "assignCourier" -> <<"delivery", "assign">>

\* The routed mutations about a resource and an action.
RoutesOn(resource, action) ==
  {op \in AdminMutations : PermissionOf(op) = <<resource, action>>}

\* checkPermission answered 403 with the structured body.
Denied(r) ==
  /\ r.status = 403
  /\ DOMAIN r.body = {"message", "userRole", "requiredPermission"}

\* C25: for every caller with a role, checkPermission(resource, action)
\* answers the structured 403 exactly when the table lacks the action for
\* the caller's role, and every route on that resource and action whose
\* allow-list admits the caller's role is one the table allows.
C25_SingleSourceOfTruth ==
  [][ (Handled /\ req'.op = "checkPermission" /\ Has(req'.user, "role")) =>
        LET resource == req'.params.resource
            action == req'.params.action
        IN  /\ Denied(res') <=> ~TableAllows(req'.user.role, resource, action)
            /\ \A op \in RoutesOn(resource, action) :
                 RequireRole(req'.user, RolesOf(op)) = NextHandler => ~Denied(res') ]_vars

\* The request reached the handler's store call and the call rejected: the
\* orderId it passes to findByIdAndUpdate does not cast to an ObjectId.
StoreCallRejected(r) ==
  /\ Has(r.body, "orderId")
  /\ ~IsObjectId(r.body.orderId)
  /\ \/ IsCreateIntent(r) /\ ~CreateIntentInvalid(r.body)
     \/ IsWebhook(r) /\ ValidSignature(r) /\ ~WebhookPayloadInvalid(r.body)

\* C26: when the store operation of a payment handler fails, the client is
\* answered 500; the request is not left without a response.
C26_StoreFailures ==
  [][ (Handled /\ StoreCallRejected(req')) =>
        (res'.status = 500 /\ orders' = orders) ]_vars

\* The step is the create of worker w's suspended signup.
Creating(w) == Suspended(w, "signup") /\ inflight'[w] = Empty

\* C27: no two accounts ever share a phone number, and a signup whose phone
\* was taken by a concurrent request between its lookup and its insert is
\* answered 409 and creates nothing.
C27_PhoneUniqueness ==
  [][ /\ PhoneUnique(users')
      /\ \A w \in Workers :
           (Creating(w) /\ PhoneTaken(users, inflight[w].req.body)) =>
             (res'.status = 409 /\ users' = users) ]_vars

\* C28: once an order's paymentStatus is paid, no later operation on it sets
\* its paymentStatus back to pending or failed.
C28_PaidIsStable ==
  [][ \A id \in DOMAIN orders :
        orders[id].paymentStatus = "paid" =>
          (id \in DOMAIN orders' /\ orders'[id].paymentStatus = "paid") ]_vars

\* createPayme or createClick was answered 200 for an order that was paid
\* before the call and is paid after it.
C28_Witness ==
  /\ IsCreateIntent(req)
  /\ res.status = 200
  /\ req.body.orderId \in DOMAIN orders
  /\ orders[req.body.orderId].paymentStatus = "paid"

\* The order the delivery names exists and the intent id stored on it by
\* createIntent is the one the delivery carries.
IntentMatches(r, store) ==
  /\ Has(r.body, "orderId") /\ r.body.orderId \in DOMAIN store
  /\ Has(store[r.body.orderId], "paymentIntentId")
  /\ Has(r.body, "intentId")
  /\ store[r.body.orderId].paymentIntentId = r.body.intentId

\* C29: a webhook answers 200 {ok: true}, or changes an order, only when the
\* order exists and the delivery's intentId is the paymentIntentId stored on
\* that order.
C29_IntentCorrelation ==
  [][ ( /\ Handled
        /\ IsWebhook(req')
        /\ (res' = Json(200, [ok |-> TRUE]) \/ orders' # orders) )
      => IntentMatches(req', orders) ]_vars

\* updateUser, from a caller whose role is not admin, for an account whose
\* current role is admin.
UpdateOfAdminByOther(r, store) ==
  /\ r.op = "updateUser"
  /\ Has(r.user, "role") /\ r.user.role # "admin"
  /\ r.params.id \in DOMAIN store
  /\ store[r.params.id].role = "admin"

====
